---- MODULE Spec2Model ----
(***************************************************************************)
(* A model of the bid-euchre rules engine: the phase legality checker, the *)
(* option enumerator and applier, the game initializer (src/index.ts) and  *)
(* the bid hierarchy, seat arithmetic, trump ranking and dealing helpers   *)
(* (src/utils.ts), over the data shapes of src/unnamed/part_000.           *)
(***************************************************************************)
EXTENDS Integers, Sequences, FiniteSets, TLC

VARIABLES
  currentPhase, \* the snapshot the caller currently holds
  origin,   \* where that snapshot came from: "none", "arbitrary" or "startGame"
  call,     \* the last call of the engine's surface: inputs, collaborators, result
  ufn,      \* the last helper of utils.ts that was applied ("none" before any)
  uargs,    \* the arguments drawn for the helpers of utils.ts
  uret      \* what that helper returned

vars == <<currentPhase, origin, call, ufn, uargs, uret>>
engineVars == <<currentPhase, origin, call>>
utilVars == <<ufn, uargs, uret>>

(***************************************************************************)
(* Data shapes (src/unnamed/part_000)                                      *)
(***************************************************************************)
CardRank == {"9", "10", "Jack", "Queen", "King", "Ace"}
CardSuit == {"Clubs", "Diamonds", "Hearts", "Spades"}
PlayerPosition == {"1", "2", "3", "4"}
BidChoice == {"Pass", "3", "4", "5", "6", "Partner's Best Card", "Going Alone"}
Trump == CardSuit \cup {"High", "Low"}

Card(rank, suit) == [rank |-> rank, suit |-> suit]

(***************************************************************************)
(* Array helpers of the language runtime                                   *)
(***************************************************************************)
Reverse(s) == [i \in 1..Len(s) |-> s[Len(s) + 1 - i]]
Includes(s, x) == \E i \in 1..Len(s) : s[i] = x
Range(s) == {s[i] : i \in 1..Len(s)}

(***************************************************************************)
(* Bid hierarchy (src/utils.ts)                                            *)
(***************************************************************************)
bidHierarchy ==
  <<"Going Alone", "Partner's Best Card", "6", "5", "4", "3", "Pass">>

\* A getHigherBid that ignores its second argument.
getHigherBidFirstArg(bidA, bidB) == bidA

getHigherBid(bidA, bidB) ==
  SelectSeq(bidHierarchy, LAMBDA element : element = bidA \/ element = bidB)[1]

isFirstBidGreaterThanSecond(first, second) == getHigherBid(first, second) = first

getHigherBids(bid) ==
  SelectSeq(bidHierarchy, LAMBDA element : isFirstBidGreaterThanSecond(element, bid))

(***************************************************************************)
(* Seat arithmetic (src/utils.ts)                                          *)
(***************************************************************************)
getNextPosition(position) ==
  IF position = "1" THEN "2"
  ELSE IF position = "2" THEN "3"
  ELSE IF position = "3" THEN "4"
  ELSE "1"

\* A partner table that sends seat 4 to seat 1.
getPositionOfPartnerButOfSeatFour(position) ==
  IF position = "1" THEN "3"
  ELSE IF position = "2" THEN "4"
  ELSE "1"

getPositionOfPartner(position) ==
  IF position = "1" THEN "3"
  ELSE IF position = "2" THEN "4"
  ELSE IF position = "3" THEN "1"
  ELSE "2"

(***************************************************************************)
(* Trump ranking (src/utils.ts)                                            *)
(***************************************************************************)
getSameColorSuit(suit) ==
  IF suit = "Clubs" THEN "Spades"
  ELSE IF suit = "Spades" THEN "Clubs"
  ELSE IF suit = "Diamonds" THEN "Hearts"
  ELSE "Diamonds"

\* A ranking that lists the left bower above the right bower in the trump suit.
rankingLeftBowerFirst(suit, trump) ==
  IF trump = "Low" \/ trump = "High"
  THEN LET cards == <<Card("9", suit), Card("10", suit), Card("Jack", suit),
                      Card("Queen", suit), Card("King", suit), Card("Ace", suit)>>
       IN  IF trump = "Low" THEN cards ELSE Reverse(cards)
  ELSE LET leftBowerSuit == getSameColorSuit(suit)
       IN  IF suit = trump
           THEN <<Card("Jack", leftBowerSuit), Card("Jack", suit), Card("Ace", suit),
                  Card("King", suit), Card("Queen", suit), Card("10", suit),
                  Card("9", suit)>>
           ELSE <<Card("Ace", suit), Card("King", suit), Card("Queen", suit),
                  Card("Jack", suit), Card("10", suit), Card("9", suit)>>

\* A ranking that lists the cards from 9 to Ace under "High" as under "Low".
rankingHighAscending(suit, trump) ==
  IF trump = "Low" \/ trump = "High"
  THEN <<Card("9", suit), Card("10", suit), Card("Jack", suit),
         Card("Queen", suit), Card("King", suit), Card("Ace", suit)>>
  ELSE rankingLeftBowerFirst(suit, trump)

getCardsOfSuitWhenTrumpOrderedByHierarchyDesc(suit, trump) ==
  IF trump = "Low" \/ trump = "High"
  THEN LET cards == <<Card("9", suit), Card("10", suit), Card("Jack", suit),
                      Card("Queen", suit), Card("King", suit), Card("Ace", suit)>>
       IN  IF trump = "Low" THEN cards ELSE Reverse(cards)
  ELSE LET leftBowerSuit == getSameColorSuit(suit)
       IN  IF suit = trump
           THEN <<Card("Jack", suit), Card("Jack", leftBowerSuit), Card("Ace", suit),
                  Card("King", suit), Card("Queen", suit), Card("10", suit),
                  Card("9", suit)>>
           ELSE IF leftBowerSuit = suit
                THEN <<Card("Ace", suit), Card("King", suit), Card("Queen", suit),
                       Card("10", suit), Card("9", suit)>>
                ELSE <<Card("Ace", suit), Card("King", suit), Card("Queen", suit),
                       Card("Jack", suit), Card("10", suit), Card("9", suit)>>

isSameCard(a, b) == a.rank = b.rank /\ a.suit = b.suit

(***************************************************************************)
(* Dealing (src/utils.ts)                                                  *)
(***************************************************************************)
getAllCards ==
  <<Card("9", "Clubs"), Card("10", "Clubs"), Card("Jack", "Clubs"),
    Card("Queen", "Clubs"), Card("King", "Clubs"), Card("Ace", "Clubs"),
    Card("9", "Diamonds"), Card("10", "Diamonds"), Card("Jack", "Diamonds"),
    Card("Queen", "Diamonds"), Card("King", "Diamonds"), Card("Ace", "Diamonds"),
    Card("9", "Hearts"), Card("10", "Hearts"), Card("Jack", "Hearts"),
    Card("Queen", "Hearts"), Card("King", "Hearts"), Card("Ace", "Hearts"),
    Card("9", "Spades"), Card("10", "Spades"), Card("Jack", "Spades"),
    Card("Queen", "Spades"), Card("King", "Spades"), Card("Ace", "Spades")>>


\* The shuffle of shuffle.ts returns a permutation of the deck it is given: the
\* k-th one modelled here reads the deck at stride Strides[k] from offset k.
Strides == <<5, 7, 11, 13, 17, 19, 23>>
shuffle(cards, k) ==
  [i \in 1..Len(cards) |-> cards[(((i - 1) * Strides[k] + k) % Len(cards)) + 1]]

\* Hands that overlap: each hand starts one card after the previous one.
dealOverlappingHands(allCardsShuffled) ==
  << SubSeq(allCardsShuffled, 1, 6), SubSeq(allCardsShuffled, 2, 7),
     SubSeq(allCardsShuffled, 3, 8), SubSeq(allCardsShuffled, 4, 9) >>

\* shuffleAndDealFourHands, given what shuffle(getAllCards()) returned.
shuffleAndDealFourHands(allCardsShuffled) ==
  << << allCardsShuffled[1], allCardsShuffled[2], allCardsShuffled[3],
        allCardsShuffled[4], allCardsShuffled[5], allCardsShuffled[6] >>,
     << allCardsShuffled[7], allCardsShuffled[8], allCardsShuffled[9],
        allCardsShuffled[10], allCardsShuffled[11], allCardsShuffled[12] >>,
     << allCardsShuffled[13], allCardsShuffled[14], allCardsShuffled[15],
        allCardsShuffled[16], allCardsShuffled[17], allCardsShuffled[18] >>,
     << allCardsShuffled[19], allCardsShuffled[20], allCardsShuffled[21],
        allCardsShuffled[22], allCardsShuffled[23], allCardsShuffled[24] >> >>

\* Array indices are 0-based in the source and 1-based here.
getIndex(position) ==
  IF position = "1" THEN 0
  ELSE IF position = "2" THEN 1
  ELSE IF position = "3" THEN 2
  ELSE 3

getHandSliceViaPosition(position, fourShuffledHands) ==
  fourShuffledHands[getIndex(position) + 1]

(***************************************************************************)
(* Options and their type guards (src/index.ts)                            *)
(***************************************************************************)
\* The value of a property an object does not have, and of an optional field
\* that is not set.
Undefined == "undefined"

\* An Option is a string (BidChoice or Trump) or a Card object; an object keeps
\* the order in which its properties were written.
StringOption(s) ==
  [type |-> "string", str |-> s, keys |-> <<>>, rank |-> Undefined, suit |-> Undefined]
CardOption(card, keys) ==
  [type |-> "object", str |-> Undefined, keys |-> keys,
   rank |-> card.rank, suit |-> card.suit]

\* JSON.stringify of an Option, as the sequence of its tokens: a string in
\* quotes, an object as its properties in the order they were written.
RECURSIVE stringifyProperties(_, _)
stringifyProperties(o, keys) ==
  IF keys = <<>> THEN <<>>
  ELSE <<"\"", Head(keys), "\"", ":", "\"", o[Head(keys)], "\"">>
       \o (IF Len(keys) > 1 THEN <<",">> ELSE <<>>)
       \o stringifyProperties(o, Tail(keys))

JSONstringify(o) ==
  IF o.type = "string" THEN <<"\"", o.str, "\"">>
  ELSE <<"{">> \o stringifyProperties(o, o.keys) \o <<"}">>

isCard(a) == a.rank # Undefined /\ a.suit # Undefined

isBidChoice(a) ==
  a.type = "string" /\
  Includes(<<"Pass", "3", "4", "5", "6", "Partner's Best Card", "Going Alone">>, a.str)

isTrump(a) ==
  a.type = "string" /\
  Includes(<<"Clubs", "Diamonds", "Hearts", "High", "Low", "Spades">>, a.str)

(***************************************************************************)
(* Phases (src/unnamed/part_000)                                           *)
(***************************************************************************)
Player(name, position, hand) == [name |-> name, position |-> position, hand |-> hand]
Team(points, players) == [points |-> points, players |-> players]
Bid(playerPosition, choice) == [playerPosition |-> playerPosition, choice |-> choice]
UpCard(owner, card) == [owner |-> owner, card |-> card]

BiddingPhase(teams, dealer, bidPosition, bids) ==
  [name |-> "Bidding", teams |-> teams, dealer |-> dealer,
   bidPosition |-> bidPosition, bids |-> bids]
TrumpPickingPhase(teams, dealer, winningBid) ==
  [name |-> "Picking Trump", teams |-> teams, dealer |-> dealer,
   winningBid |-> winningBid]
PartnersBestCardPickingPhase(teams, dealer, trump, winningBid, partner) ==
  [name |-> "Picking Partner's Best Card", teams |-> teams, dealer |-> dealer,
   trump |-> trump, winningBid |-> winningBid, partner |-> partner]
TrickTakingPhase(teams, dealer, trump, winningBid, cardPosition, currentTrick, finishedTricks, playerSittingOut) ==
  [name |-> "Trick-Taking", teams |-> teams, dealer |-> dealer, trump |-> trump,
   winningBid |-> winningBid, cardPosition |-> cardPosition,
   currentTrick |-> currentTrick, finishedTricks |-> finishedTricks,
   playerSittingOut |-> playerSittingOut]
GameOverPhase(winners, losers) ==
  [name |-> "Game Over", winners |-> winners, losers |-> losers]

\* What the caller holds before any phase exists.
NoPhase == [name |-> "none"]

(***************************************************************************)
(* Phase legality checker (src/index.ts)                                   *)
(***************************************************************************)
RECURSIVE concatHands(_)
concatHands(players) ==
  IF players = <<>> THEN <<>>
  ELSE Head(players).hand \o concatHands(Tail(players))

trickCards(trick) == [i \in 1..Len(trick) |-> trick[i].card]

RECURSIVE flatMapTrickCards(_)
flatMapTrickCards(tricks) ==
  IF tricks = <<>> THEN <<>>
  ELSE trickCards(Head(tricks)) \o flatMapTrickCards(Tail(tricks))

hasOnlyOneCardFromEachOwner(trick) ==
  Cardinality({trick[i].owner : i \in 1..Len(trick)}) = Len(trick)

\* A uniqueness test that compares each card with its neighbour only.
isEveryCardUniqueAmongNeighbours(cards) ==
  \A firstIndex \in 1..Len(cards) : \A secondIndex \in 1..Len(cards) :
    \/ secondIndex # firstIndex + 1
    \/ cards[firstIndex].rank # cards[secondIndex].rank
    \/ cards[firstIndex].suit # cards[secondIndex].suit

isEveryCardUnique(cards) ==
  \A firstIndex \in 1..Len(cards) : \A secondIndex \in 1..Len(cards) :
    \/ firstIndex = secondIndex
    \/ cards[firstIndex].rank # cards[secondIndex].rank
    \/ cards[firstIndex].suit # cards[secondIndex].suit


\* A seating test that is satisfied by one player of a partnership.
teamSitsOnEitherSeat(team) ==
  LET positions == [i \in 1..Len(team.players) |-> team.players[i].position]
  IN  \/ (Includes(positions, "1") \/ Includes(positions, "3"))
      \/ (Includes(positions, "2") \/ Includes(positions, "4"))

teamSitsOpposite(team) ==
  LET positions == [i \in 1..Len(team.players) |-> team.players[i].position]
  IN  \/ (Includes(positions, "1") /\ Includes(positions, "3"))
      \/ (Includes(positions, "2") /\ Includes(positions, "4"))

\* A size test that lets a trick of exactly four cards through.
isCurrentTrickOverFour(phase) ==
  phase.name = "Trick-Taking" /\ Len(phase.currentTrick) > 4

isCurrentTrickFull(phase) ==
  phase.name = "Trick-Taking" /\ Len(phase.currentTrick) >= 4

\* A sitting-out test that compares the player sitting out with the dealer.
isSittingOutPlayerTheDealer(phase) ==
  /\ phase.name = "Trick-Taking"
  /\ phase.playerSittingOut # Undefined
  /\ phase.playerSittingOut = phase.dealer

\* The first test of determineIfPhaseIsLegal; every seat is a non-empty string,
\* so playerSittingOut is truthy exactly when it is set.
isSittingOutPlayerToPlay(phase) ==
  /\ phase.name = "Trick-Taking"
  /\ phase.playerSittingOut # Undefined
  /\ phase.playerSittingOut = phase.cardPosition

\* A hand-size test that one player with 6 cards satisfies.
somePlayerHasSixCards(players) ==
  \E i \in 1..Len(players) : Len(players[i].hand) = 6

everyPlayerHasSixCards(players) ==
  \A i \in 1..Len(players) : Len(players[i].hand) = 6

SittingOutMessage == "The player sitting out shouldn't be able to play"
TeamLengthMessage == "Team lengths were not two"
SixCardsMessage ==
  "Not all players have 6 cards in their hands each even though we aren't in the Trick-Taking Phase yet."
OwnerMessage ==
  "One of the finished tricks has more than one card from the same player."
TwentyFourMessage == "Game does not have 24 cards in play."
UniqueMessage == "Not every card is unique"
SeatMessage == "At least two of the players are sharing the same seat."
OppositeMessage == "Players of the same team are not sitting opposite each other."
TrickSizeMessage ==
  "The current trick cannot have 4 or more cards in it, if it did then it wouldn't be considered the current trick and should instead be one of the finished tricks."
NoIssueMessage == "No issue detected"

determineIfPhaseIsLegal(phase) ==
  IF isSittingOutPlayerToPlay(phase)
  THEN <<FALSE, SittingOutMessage>>
  ELSE IF Len(phase.teams) # 2
  THEN <<FALSE, TeamLengthMessage>>
  ELSE
  LET players == phase.teams[1].players \o phase.teams[2].players
      cardsInHandsOfPlayers == concatHands(players)
      doesEachFinishedTrickHaveOnlyOneCardFromEachOwner ==
        IF phase.name = "Trick-Taking"
        THEN /\ \A i \in 1..Len(phase.finishedTricks) :
                  hasOnlyOneCardFromEachOwner(phase.finishedTricks[i])
             /\ hasOnlyOneCardFromEachOwner(phase.currentTrick)
        ELSE TRUE
      cardsInPlay ==
        IF phase.name = "Trick-Taking"
        THEN flatMapTrickCards(phase.finishedTricks) \o trickCards(phase.currentTrick)
        ELSE <<>>
      cards == cardsInHandsOfPlayers \o cardsInPlay
      hasTwentyFourCards == Len(cards) = 24
  IN
  IF /\ phase.name # "Trick-Taking"
     /\ phase.name # "Picking Partner's Best Card"
     /\ ~everyPlayerHasSixCards(players)
  THEN <<FALSE, SixCardsMessage>>
  ELSE IF ~doesEachFinishedTrickHaveOnlyOneCardFromEachOwner
  THEN <<FALSE, OwnerMessage>>
  ELSE IF ~hasTwentyFourCards
  THEN <<FALSE, TwentyFourMessage>>
  ELSE IF ~isEveryCardUnique(cards)
  THEN <<FALSE, UniqueMessage>>
  ELSE IF Cardinality({players[i].position : i \in 1..Len(players)}) # 4
  THEN <<FALSE, SeatMessage>>
  ELSE IF ~(\A t \in 1..Len(phase.teams) : teamSitsOpposite(phase.teams[t]))
  THEN <<FALSE, OppositeMessage>>
  ELSE IF isCurrentTrickFull(phase)
  THEN <<FALSE, TrickSizeMessage>>
  ELSE <<TRUE, NoIssueMessage>>

(***************************************************************************)
(* Option enumerator and option applier (src/index.ts).  The per-phase     *)
(* collaborators are outside the engine: collaboratorOptions is what the   *)
(* getOptionsFor... collaborator of the phase returns for (phase,          *)
(* currentPlayer), collaboratorPhase what its chooseOptionFor...           *)
(* collaborator returns.  Each ...Call operator gives the returned value   *)
(* together with the collaborators consulted and the warnings logged.      *)
(***************************************************************************)
\* An enumerator that dispatches without asking the legality checker.
getOptionsCallUnchecked(phase, currentPlayer, collaboratorOptions) ==
  IF phase.name = "Bidding"
  THEN [value |-> collaboratorOptions, consulted |-> <<"getOptionsForBiddingPhase">>]
  ELSE IF phase.name = "Picking Trump"
  THEN [value |-> collaboratorOptions,
        consulted |-> <<"getOptionsForTrumpPickingPhase">>]
  ELSE IF phase.name = "Trick-Taking"
  THEN [value |-> collaboratorOptions,
        consulted |-> <<"getOptionsForTrickTakingPhase">>]
  ELSE [value |-> collaboratorOptions,
        consulted |-> <<"getOptionsForPartnersBestCardPickingPhase">>]

getOptionsCall(phase, currentPlayer, collaboratorOptions) ==
  IF ~determineIfPhaseIsLegal(phase)[1]
  THEN [value |-> <<>>, consulted |-> <<>>]
  ELSE IF phase.name = "Bidding"
  THEN [value |-> collaboratorOptions, consulted |-> <<"getOptionsForBiddingPhase">>]
  ELSE IF phase.name = "Picking Trump"
  THEN [value |-> collaboratorOptions,
        consulted |-> <<"getOptionsForTrumpPickingPhase">>]
  ELSE IF phase.name = "Trick-Taking"
  THEN [value |-> collaboratorOptions,
        consulted |-> <<"getOptionsForTrickTakingPhase">>]
  ELSE IF phase.name = "Picking Partner's Best Card"
  THEN [value |-> collaboratorOptions,
        consulted |-> <<"getOptionsForPartnersBestCardPickingPhase">>]
  ELSE [value |-> <<>>, consulted |-> <<>>]

getOptions(phase, currentPlayer, collaboratorOptions) ==
  getOptionsCall(phase, currentPlayer, collaboratorOptions).value

\* A membership test that compares only whether both are strings or objects.
someOptionIsOfTheSameType(options, option) ==
  [value |-> \E i \in 1..Len(options.value) : options.value[i].type = option.type,
   consulted |-> options.consulted]

\* The membership test of isLegalOption: `options` is what getOptions returned.
someOptionIs(options, option) ==
  [value |-> \E i \in 1..Len(options.value) :
                JSONstringify(options.value[i]) = JSONstringify(option),
   consulted |-> options.consulted]

isLegalOptionCall(option, phase, currentPlayer, collaboratorOptions) ==
  someOptionIs(getOptionsCall(phase, currentPlayer, collaboratorOptions), option)

isLegalOption(option, phase, currentPlayer, collaboratorOptions) ==
  isLegalOptionCall(option, phase, currentPlayer, collaboratorOptions).value

\* The negation of an array: an array is an object, and every object is truthy.
NotOfArray(array) == FALSE

\* A dispatch on the name of the phase alone, whatever the kind of the option.
getPhaseByNameAlone(option, phase, collaboratorPhase) ==
  IF phase.name = "Bidding"
  THEN [value |-> collaboratorPhase, consulted |-> <<"chooseOptionForBiddingPhase">>]
  ELSE IF phase.name = "Picking Trump"
  THEN [value |-> collaboratorPhase,
        consulted |-> <<"chooseOptionForPickingTrumpPhase">>]
  ELSE IF phase.name = "Picking Partner's Best Card"
  THEN [value |-> collaboratorPhase,
        consulted |-> <<"chooseOptionForPickingPartnersBestCardPhase">>]
  ELSE [value |-> collaboratorPhase,
        consulted |-> <<"chooseOptionForTrickTakingPhase">>]

\* The dispatch of chooseOption: which collaborator, if any, computes the next phase.
getPhase(option, phase, collaboratorPhase) ==
  IF phase.name = "Bidding" /\ isBidChoice(option)
  THEN [value |-> collaboratorPhase, consulted |-> <<"chooseOptionForBiddingPhase">>]
  ELSE IF phase.name = "Picking Trump" /\ isTrump(option)
  THEN [value |-> collaboratorPhase,
        consulted |-> <<"chooseOptionForPickingTrumpPhase">>]
  ELSE IF phase.name = "Picking Partner's Best Card" /\ isCard(option)
  THEN [value |-> collaboratorPhase,
        consulted |-> <<"chooseOptionForPickingPartnersBestCardPhase">>]
  ELSE IF phase.name = "Trick-Taking" /\ isCard(option)
  THEN [value |-> collaboratorPhase,
        consulted |-> <<"chooseOptionForTrickTakingPhase">>]
  ELSE [value |-> phase, consulted |-> <<>>]

\* The first branch of chooseOption: the option is refused and the input phase
\* returned.  `first` and `second` are its two calls of isLegalOption.
refuseOption(phase, first, second) ==
  [value |-> phase,
   consulted |-> first.consulted \o second.consulted,
   nextPhaseChecked |-> FALSE,
   warnings |-> IF ~second.value
                THEN <<"Option is illegal">>
                ELSE <<determineIfPhaseIsLegal(phase)[2]>>]

\* A second gate that lets every candidate through.
gateNextPhaseOpen(phase, nextPhase, consulted, result) ==
  [value |-> nextPhase, consulted |-> consulted, nextPhaseChecked |-> TRUE,
   warnings |-> <<>>]

\* The second gate: `result` is determineIfPhaseIsLegal(nextPhase).
gateNextPhase(phase, nextPhase, consulted, result) ==
  IF result[1]
  THEN [value |-> nextPhase, consulted |-> consulted, nextPhaseChecked |-> TRUE,
        warnings |-> <<>>]
  ELSE [value |-> phase, consulted |-> consulted, nextPhaseChecked |-> TRUE,
        warnings |-> <<result[2]>>]

\* An end of chooseOption that keeps the input phase when the game is over.
surfaceNextPhaseKeepingInput(phase, next, consultedBefore) ==
  IF next.value.name = "Game Over"
  THEN [value |-> phase, consulted |-> consultedBefore \o next.consulted,
        nextPhaseChecked |-> FALSE, warnings |-> <<>>]
  ELSE gateNextPhase(phase, next.value, consultedBefore \o next.consulted,
                     determineIfPhaseIsLegal(next.value))

\* The end of chooseOption: `next` is what getPhase() returned.  A Game Over
\* phase is returned before determineIfPhaseIsLegal is applied to it.
surfaceNextPhase(phase, next, consultedBefore) ==
  IF next.value.name = "Game Over"
  THEN [value |-> next.value, consulted |-> consultedBefore \o next.consulted,
        nextPhaseChecked |-> FALSE, warnings |-> <<>>]
  ELSE gateNextPhase(phase, next.value, consultedBefore \o next.consulted,
                     determineIfPhaseIsLegal(next.value))

\* chooseOption, `first` being its first call of isLegalOption.
chooseOptionAfter(first, option, phase, currentPlayer, collaboratorOptions, collaboratorPhase) ==
  IF ~first.value \/ NotOfArray(determineIfPhaseIsLegal(phase))
  THEN refuseOption(phase, first,
                    isLegalOptionCall(option, phase, currentPlayer,
                                      collaboratorOptions))
  ELSE surfaceNextPhase(phase, getPhase(option, phase, collaboratorPhase),
                        first.consulted)

chooseOptionCall(option, phase, currentPlayer, collaboratorOptions, collaboratorPhase) ==
  chooseOptionAfter(isLegalOptionCall(option, phase, currentPlayer,
                                      collaboratorOptions),
                    option, phase, currentPlayer, collaboratorOptions,
                    collaboratorPhase)

chooseOption(option, phase, currentPlayer, collaboratorOptions, collaboratorPhase) ==
  chooseOptionCall(option, phase, currentPlayer, collaboratorOptions,
                   collaboratorPhase).value

(***************************************************************************)
(* Game initializer (src/index.ts)                                         *)
(***************************************************************************)
LobbyPlayer(name, position) == [name |-> name, position |-> position]

\* The seats randomPlayerPosition can return.
randomPlayerPosition == {<<"1", "2", "3", "4">>[n + 1] : n \in 0..3}

\* A startGame whose first bidder is the dealer.
startGameDealerBidsFirst(players, dealer, allCardsShuffled) ==
  LET getPlayerInPosition(position) ==
        SelectSeq(players, LAMBDA player : player.position = position)[1]
      fourShuffledHands == shuffleAndDealFourHands(allCardsShuffled)
      dealPlayer(position) ==
        Player(getPlayerInPosition(position).name,
               getPlayerInPosition(position).position,
               getHandSliceViaPosition(position, fourShuffledHands))
  IN  BiddingPhase(<<Team(0, <<dealPlayer("1"), dealPlayer("3")>>),
                     Team(0, <<dealPlayer("2"), dealPlayer("4")>>)>>,
                   dealer, dealer, <<>>)

\* startGame, given the dealer randomPlayerPosition() drew and the deck
\* shuffle(getAllCards()) returned.  The diagnostic tuple, when it is what is
\* returned, is given the name "diagnostic".
startGame(players, dealer, allCardsShuffled) ==
  LET getPlayerInPosition(position) ==
        SelectSeq(players, LAMBDA player : player.position = position)[1]
      fourShuffledHands == shuffleAndDealFourHands(allCardsShuffled)
      dealPlayer(position) ==
        Player(getPlayerInPosition(position).name,
               getPlayerInPosition(position).position,
               getHandSliceViaPosition(position, fourShuffledHands))
      phase ==
        BiddingPhase(<<Team(0, <<dealPlayer("1"), dealPlayer("3")>>),
                       Team(0, <<dealPlayer("2"), dealPlayer("4")>>)>>,
                     dealer, getNextPosition(dealer), <<>>)
      result == determineIfPhaseIsLegal(phase)
  IN  IF result[1] THEN phase ELSE [name |-> "diagnostic", result |-> result]

(***************************************************************************)
(* The per-phase collaborators (choose_option_utils, get_options_utils)    *)
(* and the shuffle are consumed through their interface only.  What they   *)
(* may return is drawn from the bounded sets below: well-formed results    *)
(* (a card played, a trick finished, the next phase of the hand) and       *)
(* faulty ones (a card lost or duplicated, seats shared, a team dropped,   *)
(* an overfull trick, the sitting-out player asked to act).                *)
(***************************************************************************)
NumShuffles == 1     \* how many permutations the shuffle draws from
MaxTricks == 1       \* finished tricks a collaborator's result may hold

allPlayers(teams) ==
  IF Len(teams) = 2 THEN teams[1].players \o teams[2].players ELSE teams[1].players

handAt(teams, position) ==
  LET players == allPlayers(teams)
      seated == {i \in 1..Len(players) : players[i].position = position}
  IN  IF seated = {} THEN <<>> ELSE players[CHOOSE i \in seated : TRUE].hand

withHand(teams, position, hand) ==
  [t \in 1..Len(teams) |->
     Team(teams[t].points,
          [i \in 1..Len(teams[t].players) |->
             IF teams[t].players[i].position = position
             THEN Player(teams[t].players[i].name, position, hand)
             ELSE teams[t].players[i]])]

withPosition(teams, t, i, position) ==
  [teams EXCEPT ![t].players[i].position = position]

\* The part of a phase a collaborator rearranges.
layoutOf(phase) ==
  [teams |-> phase.teams,
   bidder |-> IF phase.name = "Bidding" THEN getNextPosition(phase.dealer)
              ELSE phase.winningBid.playerPosition,
   cardPosition |-> IF phase.name = "Trick-Taking" THEN phase.cardPosition
                    ELSE getNextPosition(phase.dealer),
   currentTrick |-> IF phase.name = "Trick-Taking" THEN phase.currentTrick ELSE <<>>,
   finishedTricks |-> IF phase.name = "Trick-Taking" THEN phase.finishedTricks
                      ELSE <<>>,
   playerSittingOut |-> IF phase.name = "Trick-Taking" THEN phase.playerSittingOut
                        ELSE Undefined]

nextToAct(l) ==
  LET n == getNextPosition(l.cardPosition)
  IN  IF n = l.playerSittingOut THEN getNextPosition(n) ELSE n

playFirstCard(l) ==
  LET hand == handAt(l.teams, l.cardPosition)
  IN  IF hand = <<>> THEN l
      ELSE [l EXCEPT !.teams = withHand(l.teams, l.cardPosition, Tail(hand)),
                     !.currentTrick = Append(@, UpCard(l.cardPosition, Head(hand))),
                     !.cardPosition = nextToAct(l)]

finishTrick(l) ==
  IF Len(l.currentTrick) < 3 \/ Len(l.finishedTricks) >= MaxTricks THEN l
  ELSE [l EXCEPT !.finishedTricks = Append(@, l.currentTrick),
                 !.currentTrick = <<>>]

Edits ==
  {"none", "playCard", "playCardAndFinishTrick", "finishTrick", "playTwoCards",
   "duplicateCard", "dropCard", "giveCard", "shareSeat", "sitAdjacent",
   "dropTeam", "sittingOutActs", "partnerSitsOut"}

edited(l, edit) ==
  LET seat == l.cardPosition
      partner == getPositionOfPartner(seat)
      hand == handAt(l.teams, seat)
      partnersHand == handAt(l.teams, partner)
  IN
  CASE edit = "playCard" -> playFirstCard(l)
    [] edit = "playCardAndFinishTrick" -> finishTrick(playFirstCard(l))
    [] edit = "finishTrick" -> finishTrick(l)
    [] edit = "playTwoCards" ->
         playFirstCard([playFirstCard(l) EXCEPT !.cardPosition = seat])
    [] edit = "duplicateCard" ->
         IF hand = <<>> \/ partnersHand = <<>> THEN l
         ELSE [l EXCEPT !.teams =
                 withHand(l.teams, seat, <<Head(partnersHand)>> \o Tail(hand))]
    [] edit = "dropCard" ->
         IF hand = <<>> THEN l
         ELSE [l EXCEPT !.teams = withHand(l.teams, seat, Tail(hand))]
    [] edit = "giveCard" ->
         IF \E q \in PlayerPosition : Len(handAt(l.teams, q)) # 6 THEN l
         ELSE [l EXCEPT !.teams =
                 withHand(withHand(l.teams, partner, Tail(partnersHand)),
                          seat, Append(hand, Head(partnersHand)))]
    [] edit = "shareSeat" ->
         [l EXCEPT !.teams =
            withPosition(l.teams, 1, 1, l.teams[2].players[1].position)]
    [] edit = "sitAdjacent" ->
         [l EXCEPT !.teams =
            withPosition(withPosition(l.teams, 1, 2, l.teams[2].players[1].position),
                         2, 1, l.teams[1].players[2].position)]
    [] edit = "dropTeam" -> [l EXCEPT !.teams = <<l.teams[1]>>]
    [] edit = "sittingOutActs" -> [l EXCEPT !.playerSittingOut = seat]
    [] edit = "partnerSitsOut" ->
         IF l.currentTrick # <<>> \/ l.finishedTricks # <<>> THEN l
         ELSE [l EXCEPT !.playerSittingOut = getPositionOfPartner(l.bidder),
                        !.cardPosition =
                          IF seat = getPositionOfPartner(l.bidder)
                          THEN getNextPosition(seat) ELSE seat]
    [] OTHER -> l

PhaseNames ==
  {"Bidding", "Picking Trump", "Picking Partner's Best Card", "Trick-Taking",
   "Game Over"}

\* The phase called `name` over the layout l, its other fields carried over
\* from `phase` where it has them.
phaseOver(name, l, phase) ==
  LET dealer == phase.dealer
      winningBid == IF phase.name = "Bidding"
                    THEN Bid(l.bidder, "Partner's Best Card")
                    ELSE phase.winningBid
      trump == IF phase.name \in {"Bidding", "Picking Trump"} THEN "Clubs"
               ELSE phase.trump
  IN
  CASE name = "Bidding" ->
         BiddingPhase(l.teams, dealer,
                      IF phase.name = "Bidding" THEN phase.bidPosition
                      ELSE getNextPosition(dealer),
                      IF phase.name = "Bidding" THEN phase.bids ELSE <<>>)
    [] name = "Picking Trump" -> TrumpPickingPhase(l.teams, dealer, winningBid)
    [] name = "Picking Partner's Best Card" ->
         PartnersBestCardPickingPhase(l.teams, dealer, trump, winningBid,
                                      getPositionOfPartner(winningBid.playerPosition))
    [] name = "Trick-Taking" ->
         TrickTakingPhase(l.teams, dealer, trump, winningBid, l.cardPosition,
                          l.currentTrick, l.finishedTricks, l.playerSittingOut)
    [] OTHER -> GameOverPhase(l.teams[1], l.teams[Len(l.teams)])

\* What a chooseOptionFor... collaborator may return when given `phase`: the
\* same phase or a Trick-Taking phase over any edited layout, or any phase over
\* the layout as it is.
CollaboratorPhases(phase) ==
  {phaseOver(name, edited(layoutOf(phase), edit), phase) :
     name \in {phase.name, "Trick-Taking"}, edit \in Edits}
  \cup {phaseOver(name, layoutOf(phase), phase) : name \in PhaseNames}

\* The options a caller may pass and a getOptionsFor... collaborator may list:
\* two bids, two trumps, and the first card of the hand of the seat to act
\* written rank first and suit first.
firstCardToAct(phase) ==
  LET l == layoutOf(phase)
      hand == handAt(l.teams, l.cardPosition)
  IN  IF hand = <<>> THEN Card("9", "Clubs") ELSE Head(hand)

Options(phase) ==
  {StringOption("Pass"), StringOption("Going Alone"),
   StringOption("Clubs"), StringOption("High"),
   CardOption(firstCardToAct(phase), <<"rank", "suit">>),
   CardOption(firstCardToAct(phase), <<"suit", "rank">>)}

\* What a getOptionsFor... collaborator may return: to every seat nothing or a
\* list of mixed kinds, and to the seat to act also bids, trumps or a card.
CollaboratorOptions(phase, currentPlayer) ==
  {<<>>,
   <<StringOption("Pass"), StringOption("Clubs"),
     CardOption(firstCardToAct(phase), <<"rank", "suit">>)>>}
  \cup
  (IF currentPlayer = layoutOf(phase).cardPosition
   THEN {<<StringOption("Going Alone"), StringOption("Pass")>>,
         <<StringOption("Clubs"), StringOption("High")>>,
         <<CardOption(firstCardToAct(phase), <<"rank", "suit">>)>>}
   ELSE {})

(***************************************************************************)
(* The engine as its caller drives it                                      *)
(***************************************************************************)
\* The lobby: four players on seats 1..4, in either order of the array.
Lobbies ==
  {<<LobbyPlayer("P1", "1"), LobbyPlayer("P2", "2"),
     LobbyPlayer("P3", "3"), LobbyPlayer("P4", "4")>>,
   <<LobbyPlayer("P4", "4"), LobbyPlayer("P2", "2"),
     LobbyPlayer("P1", "1"), LobbyPlayer("P3", "3")>>}

Shuffles == {shuffle(getAllCards, k) : k \in 1..NumShuffles}

\* Snapshots a caller may hold without having played them: whatever a
\* collaborator could make of a fresh deal, legal or not.
ArbitraryPhases ==
  {p \in CollaboratorPhases(
           startGame(CHOOSE l \in Lobbies : l[1].position = "1", "1",
                     shuffle(getAllCards, 1))) : p.name # "Game Over"}

\* Snapshots a caller may ask the legality checker about: the one it holds and
\* whatever a collaborator could make of it.
SnapshotsNear(p) ==
  IF determineIfPhaseIsLegal(p)[1]
  THEN {p} \cup {q \in CollaboratorPhases(p) : q.name # "Game Over"}
  ELSE {p}

NoCall == [fn |-> "none"]
NoArgs ==
  [bidA |-> "Pass", bidB |-> "Pass", suit |-> "Clubs", trump |-> "Clubs",
   position |-> "1", shuffled |-> 1]
NoReturn ==
  [bid |-> Undefined, bids |-> <<>>, cards |-> <<>>, position |-> Undefined,
   hands |-> <<>>, hand |-> <<>>, rankings |-> [suit \in CardSuit |-> <<>>]]

IsPhase(p) == p.name \in PhaseNames \ {"Game Over"}

Init ==
  /\ currentPhase \in {NoPhase} \cup ArbitraryPhases
  /\ origin = IF currentPhase = NoPhase THEN "none" ELSE "arbitrary"
  /\ call = NoCall
  /\ ufn = "none" /\ uargs = NoArgs /\ uret = NoReturn

\* The engine is synchronous: a call is made when none is in flight, and its
\* record stays in `call` until the caller has taken the result (Return).
StartGame ==
  /\ call = NoCall
  /\ \E players \in Lobbies, dealer \in randomPlayerPosition,
        allCardsShuffled \in Shuffles :
       call' = [fn |-> "startGame", players |-> players, dealer |-> dealer,
                allCardsShuffled |-> allCardsShuffled,
                result |-> startGame(players, dealer, allCardsShuffled)]
  /\ UNCHANGED <<currentPhase, origin>>
  /\ UNCHANGED utilVars

DetermineIfPhaseIsLegal ==
  /\ call = NoCall
  /\ IsPhase(currentPhase)
  /\ \E p \in SnapshotsNear(currentPhase) :
       call' = [fn |-> "determineIfPhaseIsLegal", phase |-> p,
                result |-> determineIfPhaseIsLegal(p)]
  /\ UNCHANGED <<currentPhase, origin>>
  /\ UNCHANGED utilVars

GetOptions ==
  /\ call = NoCall
  /\ IsPhase(currentPhase)
  /\ \E currentPlayer \in PlayerPosition :
     \E collaboratorOptions \in CollaboratorOptions(currentPhase, currentPlayer) :
     \E r \in {getOptionsCall(currentPhase, currentPlayer, collaboratorOptions)} :
       call' = [fn |-> "getOptions", phase |-> currentPhase,
                currentPlayer |-> currentPlayer,
                collaboratorOptions |->
                  IF r.consulted = <<>> THEN <<>> ELSE collaboratorOptions,
                consulted |-> r.consulted, result |-> r.value]
  /\ UNCHANGED <<currentPhase, origin>>
  /\ UNCHANGED utilVars

IsLegalOption ==
  /\ call = NoCall
  /\ IsPhase(currentPhase)
  /\ \E option \in Options(currentPhase), currentPlayer \in PlayerPosition :
     \E collaboratorOptions \in CollaboratorOptions(currentPhase, currentPlayer) :
     \E r \in {isLegalOptionCall(option, currentPhase, currentPlayer,
                                 collaboratorOptions)} :
       call' = [fn |-> "isLegalOption", option |-> option,
                phase |-> currentPhase, currentPlayer |-> currentPlayer,
                collaboratorOptions |->
                  IF r.consulted = <<>> THEN <<>> ELSE collaboratorOptions,
                consulted |-> r.consulted, result |-> r.value]
  /\ UNCHANGED <<currentPhase, origin>>
  /\ UNCHANGED utilVars

\* The caller applies an option to the snapshot it holds.  The result of the
\* chooseOptionFor... collaborator is drawn only when the call reaches one.
ChooseOption ==
  /\ call = NoCall
  /\ IsPhase(currentPhase)
  /\ \E option \in Options(currentPhase), currentPlayer \in PlayerPosition :
     \E collaboratorOptions \in CollaboratorOptions(currentPhase, currentPlayer) :
     \E first \in {isLegalOptionCall(option, currentPhase, currentPlayer,
                                     collaboratorOptions)} :
     \E collaboratorPhase \in
          IF first.value /\ getPhase(option, currentPhase, NoPhase).consulted # <<>>
          THEN CollaboratorPhases(currentPhase) ELSE {NoPhase} :
     \E r \in {chooseOptionCall(option, currentPhase, currentPlayer,
                                collaboratorOptions, collaboratorPhase)} :
       call' = [fn |-> "chooseOption", option |-> option,
                phase |-> currentPhase, currentPlayer |-> currentPlayer,
                collaboratorOptions |->
                  IF first.consulted = <<>> THEN <<>> ELSE collaboratorOptions,
                collaboratorPhase |-> collaboratorPhase,
                consulted |-> r.consulted, warnings |-> r.warnings,
                nextPhaseChecked |-> r.nextPhaseChecked,
                result |-> r.value]
  /\ UNCHANGED <<currentPhase, origin>>
  /\ UNCHANGED utilVars

\* The caller takes the result of the call: a phase returned by startGame or
\* chooseOption replaces the snapshot it holds.
Return ==
  /\ call # NoCall
  /\ call' = NoCall
  /\ IF call.fn = "startGame"
     THEN /\ currentPhase' = IF call.result.name = "diagnostic" THEN NoPhase
                             ELSE call.result
          /\ origin' = IF call.result.name = "diagnostic" THEN "none"
                       ELSE "startGame"
     ELSE IF call.fn = "chooseOption"
     THEN currentPhase' = call.result /\ UNCHANGED origin
     ELSE UNCHANGED <<currentPhase, origin>>
  /\ UNCHANGED utilVars

Next ==
  \/ StartGame
  \/ DetermineIfPhaseIsLegal
  \/ GetOptions
  \/ IsLegalOption
  \/ ChooseOption
  \/ Return

Spec == Init /\ [][Next]_vars

(***************************************************************************)
(* The helpers of utils.ts applied to drawn arguments                      *)
(***************************************************************************)
InitUtils ==
  /\ currentPhase = NoPhase /\ origin = "none" /\ call = NoCall
  /\ ufn = "none"
  /\ uargs \in [bidA : BidChoice, bidB : BidChoice, suit : CardSuit, trump : Trump,
                position : PlayerPosition, shuffled : 1..Len(Strides)]
  /\ uret = NoReturn

GetHigherBid ==
  /\ ufn' = "getHigherBid"
  /\ uret' = [NoReturn EXCEPT !.bid = getHigherBid(uargs.bidA, uargs.bidB)]
  /\ UNCHANGED uargs
  /\ UNCHANGED engineVars

GetHigherBids ==
  /\ ufn' = "getHigherBids"
  /\ uret' = [NoReturn EXCEPT !.bids = getHigherBids(uargs.bidA)]
  /\ UNCHANGED uargs
  /\ UNCHANGED engineVars

GetCardsOfSuitWhenTrumpOrderedByHierarchyDesc ==
  /\ ufn' = "getCardsOfSuitWhenTrumpOrderedByHierarchyDesc"
  /\ uret' = [NoReturn EXCEPT !.cards =
                getCardsOfSuitWhenTrumpOrderedByHierarchyDesc(uargs.suit, uargs.trump)]
  /\ UNCHANGED uargs
  /\ UNCHANGED engineVars

\* The ranking of each of the four suits under the trump drawn.
GetCardsOfEverySuitWhenTrumpOrderedByHierarchyDesc ==
  /\ ufn' = "getCardsOfEverySuitWhenTrumpOrderedByHierarchyDesc"
  /\ uret' = [NoReturn EXCEPT !.rankings =
                [suit \in CardSuit |->
                   getCardsOfSuitWhenTrumpOrderedByHierarchyDesc(suit, uargs.trump)]]
  /\ UNCHANGED uargs
  /\ UNCHANGED engineVars

GetNextPosition ==
  /\ ufn' = "getNextPosition"
  /\ uret' = [NoReturn EXCEPT !.position = getNextPosition(uargs.position)]
  /\ UNCHANGED uargs
  /\ UNCHANGED engineVars

GetPositionOfPartner ==
  /\ ufn' = "getPositionOfPartner"
  /\ uret' = [NoReturn EXCEPT !.position = getPositionOfPartner(uargs.position)]
  /\ UNCHANGED uargs
  /\ UNCHANGED engineVars

\* The deal of the deck as the shuffle numbered uargs.shuffled returned it.
ShuffleAndDealFourHands ==
  /\ ufn' = "shuffleAndDealFourHands"
  /\ uret' = [NoReturn EXCEPT !.hands =
                shuffleAndDealFourHands(shuffle(getAllCards, uargs.shuffled))]
  /\ UNCHANGED uargs
  /\ UNCHANGED engineVars

\* The hand of a seat in such a deal.
GetHandSliceViaPosition ==
  /\ ufn' = "getHandSliceViaPosition"
  /\ \E fourShuffledHands \in
          {shuffleAndDealFourHands(shuffle(getAllCards, uargs.shuffled))} :
       uret' = [NoReturn EXCEPT
                  !.hands = fourShuffledHands,
                  !.hand = getHandSliceViaPosition(uargs.position, fourShuffledHands)]
  /\ UNCHANGED uargs
  /\ UNCHANGED engineVars

NextUtils ==
  \/ GetHigherBid
  \/ GetHigherBids
  \/ GetCardsOfSuitWhenTrumpOrderedByHierarchyDesc
  \/ GetCardsOfEverySuitWhenTrumpOrderedByHierarchyDesc
  \/ GetNextPosition
  \/ GetPositionOfPartner
  \/ ShuffleAndDealFourHands
  \/ GetHandSliceViaPosition

SpecUtils == InitUtils /\ [][NextUtils]_vars

(***************************************************************************)
(* Properties                                                              *)
(***************************************************************************)
Legal(p) == determineIfPhaseIsLegal(p)[1]

\* Every card of a phase: the four hands, the finished tricks, the current trick.
RECURSIVE CardsOfTricks(_)
CardsOfTricks(tricks) ==
  IF tricks = <<>> THEN <<>>
  ELSE [i \in 1..Len(Head(tricks)) |-> Head(tricks)[i].card]
       \o CardsOfTricks(Tail(tricks))

RECURSIVE CardsOfTeams(_)
CardsOfTeams(teams) ==
  IF teams = <<>> THEN <<>>
  ELSE concatHands(Head(teams).players) \o CardsOfTeams(Tail(teams))

CardsOf(p) ==
  CardsOfTeams(p.teams)
  \o (IF p.name = "Trick-Taking"
      THEN CardsOfTricks(p.finishedTricks) \o CardsOfTricks(<<p.currentTrick>>)
      ELSE <<>>)

Deck == {Card(rank, suit) : rank \in CardRank, suit \in CardSuit}

IsExactlyTheDeck(p) == Len(CardsOf(p)) = 24 /\ Range(CardsOf(p)) = Deck

SeatsOf(team) == {team.players[i].position : i \in 1..Len(team.players)}

SitsAsPartners(p) ==
  /\ Len(p.teams) = 2
  /\ \A t \in 1..2 : /\ Len(p.teams[t].players) = 2
                     /\ SeatsOf(p.teams[t]) \in {{"1", "3"}, {"2", "4"}}
  /\ SeatsOf(p.teams[1]) \cup SeatsOf(p.teams[2]) = PlayerPosition

ChooseCollaborators ==
  {"chooseOptionForBiddingPhase", "chooseOptionForPickingTrumpPhase",
   "chooseOptionForPickingPartnersBestCardPhase", "chooseOptionForTrickTakingPhase"}

\* Two options are the same value: the same string, or cards of the same rank
\* and suit, in whatever order the properties were written.
SameOption(a, b) ==
  a.type = b.type /\ a.str = b.str /\ a.rank = b.rank /\ a.suit = b.suit

\* C1: chooseOption applied to a legal phase returns a Game Over phase, a legal
\* phase or the input phase itself, whatever the collaborator returned; so the
\* snapshot of a game begun by startGame is always Game Over or legal.
DoubleLegalityGate ==
  /\ (call.fn = "chooseOption" /\ Legal(call.phase))
       => \/ call.result.name = "Game Over"
          \/ call.result = call.phase
          \/ Legal(call.result)
  /\ (origin = "startGame")
       => (currentPhase.name = "Game Over" \/ Legal(currentPhase))

\* C1 witness: in a game begun by startGame the collaborator returned an illegal
\* phase and chooseOption returned the input phase instead.
DoubleLegalityGateWitness ==
  /\ origin = "startGame"
  /\ call.fn = "chooseOption"
  /\ call.collaboratorPhase.name \in PhaseNames \ {"Game Over"}
  /\ ~Legal(call.collaboratorPhase)
  /\ call.result = call.phase
  /\ Legal(call.phase)

\* C2: when the option is not among getOptions(phase, seat), chooseOption
\* returns a phase equal to its input and consults no chooseOptionFor...
\* collaborator.
IllegalOptionNoOp ==
  (/\ call.fn = "chooseOption"
   /\ LET options == getOptions(call.phase, call.currentPlayer,
                                call.collaboratorOptions)
      IN  ~\E i \in 1..Len(options) : SameOption(options[i], call.option))
    => /\ call.result = call.phase
       /\ Range(call.consulted) \cap ChooseCollaborators = {}

\* C2 witness: on a legal phase the collaborator listed options, the option
\* passed was none of them, and the input phase came back.
IllegalOptionNoOpWitness ==
  /\ call.fn = "chooseOption"
  /\ Legal(call.phase)
  /\ call.collaboratorOptions # <<>>
  /\ \A i \in 1..Len(call.collaboratorOptions) :
       ~SameOption(call.collaboratorOptions[i], call.option)
  /\ call.result = call.phase

\* C3: the hands, finished tricks and current trick of every phase of a game
\* begun by startGame, and of every phase determineIfPhaseIsLegal accepts, are
\* exactly the 24 cards of the deck, each once.
CardConservation ==
  /\ (origin = "startGame" /\ IsPhase(currentPhase)) => IsExactlyTheDeck(currentPhase)
  /\ (call.fn = "determineIfPhaseIsLegal" /\ call.result[1])
       => IsExactlyTheDeck(call.phase)

\* C3 witness: in a game begun by startGame, determineIfPhaseIsLegal accepts a
\* Trick-Taking phase with a finished trick and cards in the current trick.
CardConservationWitness ==
  /\ origin = "startGame"
  /\ call.fn = "determineIfPhaseIsLegal"
  /\ call.result[1]
  /\ call.phase.name = "Trick-Taking"
  /\ call.phase.finishedTricks # <<>>
  /\ call.phase.currentTrick # <<>>

\* C4: in every phase of a game begun by startGame, and in every phase
\* determineIfPhaseIsLegal accepts, the four players sit on four distinct seats
\* and the two players of each team sit on seats 1 and 3 or on seats 2 and 4.
SeatingInvariant ==
  /\ (origin = "startGame" /\ IsPhase(currentPhase)) => SitsAsPartners(currentPhase)
  /\ (call.fn = "determineIfPhaseIsLegal" /\ call.result[1])
       => SitsAsPartners(call.phase)

\* C4 witness: determineIfPhaseIsLegal accepts a phase a collaborator made of the
\* snapshot held in a game begun by startGame.
SeatingInvariantWitness ==
  /\ origin = "startGame"
  /\ call.fn = "determineIfPhaseIsLegal"
  /\ call.result[1]
  /\ call.phase # currentPhase
  /\ call.phase.name = "Picking Partner's Best Card"

\* The suit of the same colour: Clubs and Spades are black, Diamonds and Hearts red.
Colour(suit) == IF suit \in {"Clubs", "Spades"} THEN "black" ELSE "red"
OtherSuitOfColour(suit) ==
  CHOOSE other \in CardSuit : other # suit /\ Colour(other) = Colour(suit)

\* The bid choices from lowest to highest.
BidsAscending == <<"Pass", "3", "4", "5", "6", "Partner's Best Card", "Going Alone">>
BidRank(bid) == CHOOSE i \in 1..Len(BidsAscending) : BidsAscending[i] = bid

\* C5: under a real-suit trump, the other suit of trump's colour ranks exactly
\* Ace, King, Queen, 10, 9, without its Jack.
BowerDonorRanking ==
  (/\ ufn = "getCardsOfSuitWhenTrumpOrderedByHierarchyDesc"
   /\ uargs.trump \in CardSuit
   /\ uargs.suit = OtherSuitOfColour(uargs.trump))
    => uret.cards = <<Card("Ace", uargs.suit), Card("King", uargs.suit),
                      Card("Queen", uargs.suit), Card("10", uargs.suit),
                      Card("9", uargs.suit)>>

\* C6: the trump suit ranks its own Jack, the Jack of the other suit of its
\* colour, then Ace, King, Queen, 10, 9; a suit of the other colour ranks Ace,
\* King, Queen, Jack, 10, 9.
TrumpSuitRanking ==
  (ufn = "getCardsOfSuitWhenTrumpOrderedByHierarchyDesc" /\ uargs.trump \in CardSuit)
    => /\ (uargs.suit = uargs.trump)
            => uret.cards =
                 <<Card("Jack", uargs.suit),
                   Card("Jack", OtherSuitOfColour(uargs.suit)),
                   Card("Ace", uargs.suit), Card("King", uargs.suit),
                   Card("Queen", uargs.suit), Card("10", uargs.suit),
                   Card("9", uargs.suit)>>
       /\ (Colour(uargs.suit) # Colour(uargs.trump))
            => uret.cards =
                 <<Card("Ace", uargs.suit), Card("King", uargs.suit),
                   Card("Queen", uargs.suit), Card("Jack", uargs.suit),
                   Card("10", uargs.suit), Card("9", uargs.suit)>>

\* C6 witness: the ranking of Hearts has been computed with Hearts as trump.
TrumpSuitRankingWitness ==
  /\ ufn = "getCardsOfSuitWhenTrumpOrderedByHierarchyDesc"
  /\ uargs.suit = "Hearts" /\ uargs.trump = "Hearts"
  /\ Len(uret.cards) = 7

\* C7: getHigherBids(b) lists exactly the bid choices that strictly outrank b,
\* from highest to lowest; b itself is never listed.
StrictlyHigherBids ==
  (ufn = "getHigherBids")
    => uret.bids =
         SelectSeq(Reverse(BidsAscending),
                   LAMBDA bid : BidRank(bid) > BidRank(uargs.bidA))

\* C8: getHigherBid(a, b) is whichever of a and b ranks higher in
\* Pass < 3 < 4 < 5 < 6 < Partner's Best Card < Going Alone, in either order of
\* the arguments.
BidOrder ==
  (ufn = "getHigherBid")
    => /\ uret.bid = IF BidRank(uargs.bidA) >= BidRank(uargs.bidB)
                     THEN uargs.bidA ELSE uargs.bidB
       /\ getHigherBid(uargs.bidB, uargs.bidA) = uret.bid

\* C8 witness: getHigherBid("Pass", "Going Alone") has returned "Going Alone".
BidOrderWitness ==
  /\ ufn = "getHigherBid"
  /\ uargs.bidA = "Pass" /\ uargs.bidB = "Going Alone"
  /\ uret.bid = "Going Alone"

\* C9: for four lobby players on seats 1..4, startGame returns a legal Bidding
\* phase: the first bidder is the seat after the dealer, no bid is made, every
\* hand holds 6 cards, team 0 sits on seats 1 and 3 and team 1 on seats 2 and 4,
\* both with 0 points.
StartGameDeals ==
  (call.fn = "startGame")
    => /\ call.result.name = "Bidding"
       /\ call.result.dealer \in PlayerPosition
       /\ call.result.bidPosition =
            [seat \in PlayerPosition |->
               CASE seat = "1" -> "2" [] seat = "2" -> "3"
                 [] seat = "3" -> "4" [] OTHER -> "1"][call.result.dealer]
       /\ call.result.bids = <<>>
       /\ Len(call.result.teams) = 2
       /\ \A t \in 1..2 :
            /\ call.result.teams[t].points = 0
            /\ Len(call.result.teams[t].players) = 2
            /\ \A i \in 1..2 : Len(call.result.teams[t].players[i].hand) = 6
       /\ SeatsOf(call.result.teams[1]) = {"1", "3"}
       /\ SeatsOf(call.result.teams[2]) = {"2", "4"}
       /\ Legal(call.result)

\* C9 witness: startGame has dealt with seat 4 as the dealer.
StartGameDealsWitness ==
  /\ call.fn = "startGame"
  /\ call.dealer = "4"
  /\ call.result.name = "Bidding"
  /\ call.result.bidPosition = "1"

\* One card from each owner in every trick, finished or current.
OneCardPerOwner(p) ==
  \A trick \in Range(p.finishedTricks) \cup {p.currentTrick} :
    \A i, j \in 1..Len(trick) : trick[i].owner = trick[j].owner => i = j

\* The invariants determineIfPhaseIsLegal checks before the size of the current
\* trick hold of the Trick-Taking phase p.
HoldsBeforeTrickSize(p) ==
  /\ ~(p.playerSittingOut # Undefined /\ p.playerSittingOut = p.cardPosition)
  /\ Len(p.teams) = 2
  /\ OneCardPerOwner(p)
  /\ IsExactlyTheDeck(p)
  /\ SitsAsPartners(p)

\* C10 as claimed: every Trick-Taking phase whose current trick holds 4 UpCards
\* fails determineIfPhaseIsLegal with the message about the size of the current
\* trick.
IllegalTrickSizeAlwaysNamed ==
  (/\ call.fn = "determineIfPhaseIsLegal"
   /\ call.phase.name = "Trick-Taking"
   /\ Len(call.phase.currentTrick) = 4)
    => call.result = <<FALSE, TrickSizeMessage>>

\* C10 as amended: every Trick-Taking phase whose current trick holds 4 UpCards
\* fails determineIfPhaseIsLegal; the message is the one about the size of the
\* current trick exactly when the phase violates none of the invariants checked
\* before it.
IllegalTrickSize ==
  (/\ call.fn = "determineIfPhaseIsLegal"
   /\ call.phase.name = "Trick-Taking"
   /\ Len(call.phase.currentTrick) = 4)
    => /\ call.result[1] = FALSE
       /\ (call.result[2] = TrickSizeMessage) <=> HoldsBeforeTrickSize(call.phase)

\* C10 witness: a Trick-Taking phase that is in order but for the 4 UpCards of
\* its current trick has been refused with the message about the trick's size.
IllegalTrickSizeWitness ==
  /\ call.fn = "determineIfPhaseIsLegal"
  /\ call.phase.name = "Trick-Taking"
  /\ Len(call.phase.currentTrick) = 4
  /\ HoldsBeforeTrickSize(call.phase)
  /\ call.result = <<FALSE, TrickSizeMessage>>

\* C11: a Trick-Taking phase whose playerSittingOut is set and is the seat to
\* act fails determineIfPhaseIsLegal, and in no Trick-Taking phase of a game
\* begun by startGame is the seat to act the player sitting out.
SittingOutConflict ==
  /\ (/\ call.fn = "determineIfPhaseIsLegal"
      /\ call.phase.name = "Trick-Taking"
      /\ call.phase.playerSittingOut \in PlayerPosition
      /\ call.phase.playerSittingOut = call.phase.cardPosition)
       => call.result[1] = FALSE
  /\ (origin = "startGame" /\ currentPhase.name = "Trick-Taking")
       => currentPhase.playerSittingOut # currentPhase.cardPosition

\* C11 witness: in a game begun by startGame, a Trick-Taking phase in which the
\* player sitting out is the seat to act has been refused.
SittingOutConflictWitness ==
  /\ origin = "startGame"
  /\ call.fn = "determineIfPhaseIsLegal"
  /\ call.phase.name = "Trick-Taking"
  /\ call.phase.playerSittingOut \in PlayerPosition
  /\ call.phase.playerSittingOut = call.phase.cardPosition
  /\ call.result = <<FALSE, SittingOutMessage>>

\* A finished trick as the data model describes it: 4 UpCards, one of each seat.
IsFullTrick(trick) ==
  Len(trick) = 4 /\ {trick[i].owner : i \in 1..Len(trick)} = PlayerPosition

\* C12: in every Trick-Taking phase determineIfPhaseIsLegal accepts, and in
\* every Trick-Taking phase of a game begun by startGame, each finished trick
\* is a sequence of exactly 4 UpCards in which each seat appears exactly once.
FinishedTrickShape ==
  /\ (/\ call.fn = "determineIfPhaseIsLegal"
      /\ call.phase.name = "Trick-Taking"
      /\ call.result[1])
       => \A i \in 1..Len(call.phase.finishedTricks) :
            IsFullTrick(call.phase.finishedTricks[i])
  /\ (origin = "startGame" /\ currentPhase.name = "Trick-Taking")
       => \A i \in 1..Len(currentPhase.finishedTricks) :
            IsFullTrick(currentPhase.finishedTricks[i])

\* The getOptionsFor... collaborator of each phase.
OptionsCollaboratorOf(name) ==
  CASE name = "Bidding" -> "getOptionsForBiddingPhase"
    [] name = "Picking Trump" -> "getOptionsForTrumpPickingPhase"
    [] name = "Picking Partner's Best Card" ->
         "getOptionsForPartnersBestCardPickingPhase"
    [] OTHER -> "getOptionsForTrickTakingPhase"

\* C13: on a phase that fails determineIfPhaseIsLegal getOptions returns the
\* empty sequence and isLegalOption returns false, neither consulting a
\* collaborator; on a legal phase getOptions returns what the collaborator of
\* the phase's name returned, unchanged.
FailSafeEnumeration ==
  /\ (call.fn = "getOptions" /\ ~Legal(call.phase))
       => call.result = <<>> /\ call.consulted = <<>>
  /\ (call.fn = "isLegalOption" /\ ~Legal(call.phase))
       => call.result = FALSE /\ call.consulted = <<>>
  /\ (call.fn = "getOptions" /\ Legal(call.phase))
       => /\ call.result = call.collaboratorOptions
          /\ call.consulted = <<OptionsCollaboratorOf(call.phase.name)>>

\* C13 witness: getOptions has returned no option on a Bidding phase whose
\* hands are not of 6 cards each.
FailSafeEnumerationWitness ==
  /\ call.fn = "getOptions"
  /\ call.phase.name = "Bidding"
  /\ determineIfPhaseIsLegal(call.phase) = <<FALSE, SixCardsMessage>>
  /\ call.result = <<>>
  /\ call.consulted = <<>>

\* C14: under "Low" every suit ranks its 6 cards 9, 10, Jack, Queen, King, Ace,
\* and under "High" the same 6 cards in the reverse order.
NoTrumpRanking ==
  (ufn = "getCardsOfSuitWhenTrumpOrderedByHierarchyDesc")
    => /\ (uargs.trump = "Low")
            => uret.cards =
                 <<Card("9", uargs.suit), Card("10", uargs.suit),
                   Card("Jack", uargs.suit), Card("Queen", uargs.suit),
                   Card("King", uargs.suit), Card("Ace", uargs.suit)>>
       /\ (uargs.trump = "High")
            => uret.cards =
                 <<Card("Ace", uargs.suit), Card("King", uargs.suit),
                   Card("Queen", uargs.suit), Card("Jack", uargs.suit),
                   Card("10", uargs.suit), Card("9", uargs.suit)>>

\* C14 witness: the ranking of Diamonds has been computed under "High" and
\* starts with the Ace.
NoTrumpRankingWitness ==
  /\ ufn = "getCardsOfSuitWhenTrumpOrderedByHierarchyDesc"
  /\ uargs.suit = "Diamonds" /\ uargs.trump = "High"
  /\ Len(uret.cards) = 6
  /\ uret.cards[1] = Card("Ace", "Diamonds")

\* The sizes of the hands of a phase, team by team.
HandSizes(p) ==
  [i \in 1..Len(allPlayers(p.teams)) |-> Len(allPlayers(p.teams)[i].hand)]

\* C15: every Bidding or Picking Trump phase determineIfPhaseIsLegal accepts,
\* and every such phase of a game begun by startGame, has four hands of
\* exactly 6 cards; a Picking Partner's Best Card or Trick-Taking phase is
\* never refused for the size of a hand, yet is accepted only with 24 cards.
SixCardHands ==
  /\ (/\ call.fn = "determineIfPhaseIsLegal"
      /\ call.phase.name \in {"Bidding", "Picking Trump"}
      /\ call.result[1])
       => HandSizes(call.phase) = <<6, 6, 6, 6>>
  /\ (origin = "startGame" /\ currentPhase.name \in {"Bidding", "Picking Trump"})
       => HandSizes(currentPhase) = <<6, 6, 6, 6>>
  /\ (/\ call.fn = "determineIfPhaseIsLegal"
      /\ call.phase.name \in {"Picking Partner's Best Card", "Trick-Taking"})
       => /\ call.result[2] # SixCardsMessage
          /\ call.result[1] => Len(CardsOf(call.phase)) = 24

\* C15 witness: in a game begun by startGame a Picking Trump phase with four
\* hands of 6 cards has been accepted.
SixCardHandsWitness ==
  /\ origin = "startGame"
  /\ call.fn = "determineIfPhaseIsLegal"
  /\ call.phase.name = "Picking Trump"
  /\ call.result[1]
  /\ HandSizes(call.phase) = <<6, 6, 6, 6>>

\* A Bidding phase in which a player holds 7 of the 24 cards has been refused
\* for the size of the hands.
UnevenHandsRefused ==
  /\ call.fn = "determineIfPhaseIsLegal"
  /\ call.phase.name = "Bidding"
  /\ Includes(HandSizes(call.phase), 7)
  /\ Len(CardsOf(call.phase)) = 24
  /\ call.result = <<FALSE, SixCardsMessage>>

\* A Picking Partner's Best Card phase with a hand of 7 cards has been accepted.
UnevenHandsAccepted ==
  /\ call.fn = "determineIfPhaseIsLegal"
  /\ call.phase.name = "Picking Partner's Best Card"
  /\ Includes(HandSizes(call.phase), 7)
  /\ call.result[1]

\* The kind of an option, and the kind each phase accepts.
KindOf(option) ==
  IF option.type = "object" THEN "Card"
  ELSE IF option.str \in BidChoice THEN "BidChoice"
  ELSE "Trump"

KindAccepted(name) ==
  CASE name = "Bidding" -> "BidChoice"
    [] name = "Picking Trump" -> "Trump"
    [] OTHER -> "Card"

\* C16: when the option is among getOptions(phase, seat) on a legal phase but
\* is not of the kind the phase accepts, chooseOption consults no
\* chooseOptionFor... collaborator and returns the input phase.
DispatchMismatchNoOp ==
  (/\ call.fn = "chooseOption"
   /\ Legal(call.phase)
   /\ \E i \in 1..Len(call.collaboratorOptions) :
        SameOption(call.collaboratorOptions[i], call.option)
   /\ KindOf(call.option) # KindAccepted(call.phase.name))
    => /\ call.result = call.phase
       /\ Range(call.consulted) \cap ChooseCollaborators = {}

\* C16 witness: on a legal Bidding phase the collaborator listed the trump
\* "Clubs", the caller chose it, and the input phase came back without a
\* warning.
DispatchMismatchNoOpWitness ==
  /\ call.fn = "chooseOption"
  /\ Legal(call.phase)
  /\ call.phase.name = "Bidding"
  /\ call.option = StringOption("Clubs")
  /\ Includes(call.collaboratorOptions, call.option)
  /\ call.warnings = <<>>
  /\ call.result = call.phase

\* C17: when chooseOption reaches a chooseOptionFor... collaborator and it
\* returns a Game Over phase, chooseOption returns that phase and does not
\* apply determineIfPhaseIsLegal to it; and chooseOption returns a Game Over
\* phase only so: the input phase legal, the option listed, and the phase the
\* one the collaborator returned.
TerminalPassThrough ==
  /\ (/\ call.fn = "chooseOption"
      /\ call.collaboratorPhase.name = "Game Over")
       => /\ call.result = call.collaboratorPhase
          /\ call.nextPhaseChecked = FALSE
          /\ call.warnings = <<>>
  /\ (call.fn = "chooseOption" /\ call.result.name = "Game Over")
       => /\ call.collaboratorPhase = call.result
          /\ Legal(call.phase)
          /\ \E i \in 1..Len(call.collaboratorOptions) :
               JSONstringify(call.collaboratorOptions[i]) = JSONstringify(call.option)
          /\ Range(call.consulted) \cap ChooseCollaborators # {}

\* C17 witness: in a game begun by startGame the collaborator of the
\* Trick-Taking phase has returned a Game Over phase and chooseOption returned it.
TerminalPassThroughWitness ==
  /\ origin = "startGame"
  /\ call.fn = "chooseOption"
  /\ call.phase.name = "Trick-Taking"
  /\ call.collaboratorPhase.name = "Game Over"
  /\ call.result = call.collaboratorPhase
  /\ call.nextPhaseChecked = FALSE

\* The seat of each hand index, 1-based.
SeatOfHand == <<"1", "2", "3", "4">>

\* C18: for every permutation of the deck the shuffle returns,
\* shuffleAndDealFourHands returns four hands of 6 cards, the i-th being the
\* i-th run of 6 shuffled cards and the hand of seat i for
\* getHandSliceViaPosition; no two hands share a card and together they are
\* the deck.
DealingPartition ==
  (ufn \in {"shuffleAndDealFourHands", "getHandSliceViaPosition"})
    => /\ Len(uret.hands) = 4
       /\ \A i \in 1..4 :
            /\ Len(uret.hands[i]) = 6
            /\ uret.hands[i] =
                 SubSeq(shuffle(getAllCards, uargs.shuffled), 6 * (i - 1) + 1, 6 * i)
       /\ \A i, j \in 1..4 :
            i # j => Range(uret.hands[i]) \cap Range(uret.hands[j]) = {}
       /\ UNION {Range(uret.hands[i]) : i \in 1..4} = Deck
       /\ (ufn = "getHandSliceViaPosition")
            => \E i \in 1..4 : /\ SeatOfHand[i] = uargs.position
                               /\ uret.hand = uret.hands[i]

\* C18 witness: a deck that the shuffle has permuted has been dealt and the
\* hand of seat 3 taken from the deal.
DealingPartitionWitness ==
  /\ ufn = "getHandSliceViaPosition"
  /\ uargs.position = "3"
  /\ shuffle(getAllCards, uargs.shuffled) # getAllCards
  /\ Len(uret.hand) = 6
  /\ uret.hand = uret.hands[3]

\* C19: getNextPosition is the cycle 1 -> 2 -> 3 -> 4 -> 1, so that four
\* applications visit every seat and return to the first; getPositionOfPartner
\* is getNextPosition applied twice, an involution without fixed point that
\* pairs seats 1 and 3 and seats 2 and 4.
SeatArithmetic ==
  /\ (ufn = "getNextPosition")
       => /\ uret.position =
               (CASE uargs.position = "1" -> "2" [] uargs.position = "2" -> "3"
                  [] uargs.position = "3" -> "4" [] OTHER -> "1")
          /\ getNextPosition(getNextPosition(getNextPosition(uret.position)))
               = uargs.position
          /\ {uargs.position, uret.position, getNextPosition(uret.position),
               getNextPosition(getNextPosition(uret.position))} = PlayerPosition
  /\ (ufn = "getPositionOfPartner")
       => /\ uret.position = getNextPosition(getNextPosition(uargs.position))
          /\ getPositionOfPartner(uret.position) = uargs.position
          /\ uret.position # uargs.position
          /\ {uargs.position, uret.position} \in {{"1", "3"}, {"2", "4"}}

\* C19 witness: the partner of seat 4 has been computed and is seat 2.
SeatArithmeticWitness ==
  /\ ufn = "getPositionOfPartner"
  /\ uargs.position = "4"
  /\ uret.position = "2"

\* How many times a card occurs in a sequence of cards.
Occurrences(card, cards) == Cardinality({i \in 1..Len(cards) : cards[i] = card})

\* C20: under every trump the rankings of the four suits together hold each
\* card of the deck exactly once; under a real-suit trump they are of 7 cards
\* for the trump suit, 5 for the other suit of its colour and 6 for the two
\* others, and under "High" and "Low" of 6 cards each.
RankingPartitionsDeck ==
  (ufn = "getCardsOfEverySuitWhenTrumpOrderedByHierarchyDesc")
    => /\ \A card \in Deck :
            Occurrences(card, uret.rankings["Clubs"] \o uret.rankings["Diamonds"]
                                \o uret.rankings["Hearts"] \o uret.rankings["Spades"])
              = 1
       /\ \A suit \in CardSuit :
            Len(uret.rankings[suit]) =
              IF uargs.trump \notin CardSuit THEN 6
              ELSE IF suit = uargs.trump THEN 7
              ELSE IF suit = OtherSuitOfColour(uargs.trump) THEN 5
              ELSE 6
====
